---- MODULE Spec2Model ----
(***************************************************************************)
(* Groqbook (src/main.py): the incremental document-assembly engine.       *)
(*                                                                         *)
(* Text is a sequence of one-character strings.  A Python value decoded    *)
(* from the outline payload is a record [kind, items]: kind "str" for a    *)
(* description, "dict" for a mapping (items = its (title, content) pairs   *)
(* in insertion order), "other" for any other JSON value (number, list,    *)
(* null, ...).  The raw payload has the same shape, except that an object  *)
(* may repeat a key and that kind "malformed" is text that is not JSON.    *)
(***************************************************************************)
EXTENDS Integers, Sequences, FiniteSets, TLC

VARIABLES
    pc,              \* position of the script inside main / generate_book
    err,             \* exception that ended generate_book ("none" if none)
    book_structure,  \* payload returned by generate_book_structure
    structure_stats, \* statistics of the outline call
    has_book,        \* 'book' in st.session_state
    book,            \* st.session_state.book: [structure, contents]
    total_stats,     \* the run-wide accumulator of generate_book
    stack,           \* frames of stream_section_content: [sections, i]
    nchunks,         \* chunks delivered so far by the streams of the run
    started,         \* history: titles of the section calls started, in order
    active,          \* history: numbers of the section calls in flight
    applied,         \* history: per title, the deltas appended, in order
    emitted,         \* history: per section call, the text deltas it yielded
    reported,        \* history: how often the section calls yielded each record
    records,         \* statistics objects of a merge exercise
    exported         \* last result of get_markdown_content in main

vars == <<pc, err, book_structure, structure_stats, has_book, book,
          total_stats, stack, nchunks, started, active, applied, emitted,
          reported, records, exported>>

-----------------------------------------------------------------------------
(* Bounds of the model *)

\* most chunks the provider streams of one run deliver in total
MaxChunks == 4

\* most appends applied to a Document built on its own
MaxAppends == 3

-----------------------------------------------------------------------------
(* Text *)

Whitespace == {" ", "\n", "\t"}

Deltas == {<<"x">>, <<" ">>}

RECURSIVE lstrip(_)
lstrip(s) ==
    IF s # <<>> /\ Head(s) \in Whitespace THEN lstrip(Tail(s)) ELSE s

RECURSIVE rstrip(_)
rstrip(s) ==
    IF s # <<>> /\ s[Len(s)] \in Whitespace
    THEN rstrip(SubSeq(s, 1, Len(s) - 1))
    ELSE s

\* str.strip()
strip(s) == rstrip(lstrip(s))

\* truth value of a Python string
Truthy(s) == s # <<>>

\* '#' * level
RECURSIVE Hashes(_)
Hashes(level) == IF level <= 0 THEN <<>> ELSE <<"#">> \o Hashes(level - 1)

-----------------------------------------------------------------------------
(* Values decoded from JSON *)

Str == [kind |-> "str", items |-> <<>>]
Other == [kind |-> "other", items |-> <<>>]
Malformed == [kind |-> "malformed", items |-> <<>>]
Dict(items) == [kind |-> "dict", items |-> items]
Item(t, c) == [title |-> t, content |-> c]

\* isinstance(content, dict)
IsDict(v) == v.kind = "dict"

\* a test for "has content" that a nested mapping passes too
IsStr_lax(v) == v.kind \in {"str", "dict"}

\* isinstance(content, str)
IsStr(v) == v.kind = "str"

\* d[k] = v on an insertion-ordered dict: an existing key keeps its place
SetItem(items, k, v) ==
    IF \E j \in 1..Len(items) : items[j].title = k
    THEN [j \in 1..Len(items) |->
            IF items[j].title = k THEN Item(k, v) ELSE items[j]]
    ELSE Append(items, Item(k, v))

RECURSIVE DictFromPairs(_)
DictFromPairs(pairs) ==
    IF pairs = <<>> THEN <<>>
    ELSE LET n == Len(pairs)
         IN SetItem(DictFromPairs(SubSeq(pairs, 1, n - 1)),
                    pairs[n].title, pairs[n].content)

\* json.loads on well-formed text: objects become dicts, a repeated key
\* keeps its first position and its last value
RECURSIVE json_loads(_)
json_loads(raw) ==
    IF raw.kind = "dict"
    THEN Dict(DictFromPairs(
            [j \in 1..Len(raw.items) |->
                Item(raw.items[j].title, json_loads(raw.items[j].content))]))
    ELSE raw

-----------------------------------------------------------------------------
(* class Book *)

\* flatten_structure without the recursion into nested dicts
flatten_structure_top(items) == [j \in 1..Len(items) |-> items[j].title]

\* Book.flatten_structure, on the items of a dict
RECURSIVE flatten_structure(_)
flatten_structure(items) ==
    IF items = <<>> THEN <<>>
    ELSE LET it == Head(items)
         IN <<it.title>>
            \o (IF IsDict(it.content)
                THEN flatten_structure(it.content.items) ELSE <<>>)
            \o flatten_structure(Tail(items))

SeqRange(s) == {s[j] : j \in 1..Len(s)}

\* Book.__init__ (structure is a dict)
NewBook(structure) ==
    [structure |-> structure,
     contents |-> [t \in SeqRange(flatten_structure(structure.items)) |-> <<>>]]

NoBook == [structure |-> Dict(<<>>), contents |-> <<>>]

\* update_content with the operands of += swapped
update_content_prepend(b, title, new_content) ==
    [b EXCEPT !.contents[title] = new_content \o @]

\* update_content with = in place of +=
update_content_replace(b, title, new_content) ==
    [b EXCEPT !.contents[title] = new_content]

\* update_content that appends to the buffer of the outline's first title
update_content_first(b, title, new_content) ==
    [b EXCEPT !.contents[b.structure.items[1].title] = @ \o new_content]

\* Book.update_content: self.contents[title] += new_content
update_content(b, title, new_content) ==
    [b EXCEPT !.contents[title] = @ \o new_content]

\* update_content that creates the buffer of a title it does not know
append_to_setdefault(b, title, new_content) ==
    IF title \in DOMAIN b.contents
    THEN [raised |-> FALSE, book |-> update_content(b, title, new_content)]
    ELSE [raised |-> FALSE,
          book |-> [b EXCEPT !.contents =
                      [t \in DOMAIN @ \cup {title} |->
                          IF t = title THEN new_content ELSE @[t]]]]

\* Book.update_content with its lookup: self.contents[title] raises
\* KeyError for a title that has no buffer, before anything is written
append_to(b, title, new_content) ==
    IF title \in DOMAIN b.contents
    THEN [raised |-> FALSE, book |-> update_content(b, title, new_content)]
    ELSE [raised |-> TRUE, book |-> b]

\* get_markdown_content recursing with level instead of level + 1
RECURSIVE markdown_of_flat(_, _, _)
markdown_of_flat(contents, items, level) ==
    IF items = <<>> THEN <<>>
    ELSE LET it == Head(items)
         IN (IF Truthy(strip(contents[it.title]))
             THEN Hashes(level) \o <<" ", it.title, "\n">>
                  \o contents[it.title] \o <<"\n", "\n">>
             ELSE <<>>)
            \o (IF IsDict(it.content)
                THEN markdown_of_flat(contents, it.content.items, level)
                ELSE <<>>)
            \o markdown_of_flat(contents, Tail(items), level)

\* get_markdown_content that gives every chapter with sections a heading
RECURSIVE markdown_of_parents(_, _, _)
markdown_of_parents(contents, items, level) ==
    IF items = <<>> THEN <<>>
    ELSE LET it == Head(items)
         IN (IF Truthy(strip(contents[it.title])) \/ IsDict(it.content)
             THEN Hashes(level) \o <<" ", it.title, "\n">>
                  \o contents[it.title] \o <<"\n", "\n">>
             ELSE <<>>)
            \o (IF IsDict(it.content)
                THEN markdown_of_parents(contents, it.content.items,
                                         level + 1)
                ELSE <<>>)
            \o markdown_of_parents(contents, Tail(items), level)

\* Book.get_markdown_content(structure, level), on the items of a dict
RECURSIVE markdown_of(_, _, _)
markdown_of(contents, items, level) ==
    IF items = <<>> THEN <<>>
    ELSE LET it == Head(items)
         IN (IF Truthy(strip(contents[it.title]))
             THEN Hashes(level) \o <<" ", it.title, "\n">>
                  \o contents[it.title] \o <<"\n", "\n">>
             ELSE <<>>)
            \o (IF IsDict(it.content)
                THEN markdown_of(contents, it.content.items, level + 1)
                ELSE <<>>)
            \o markdown_of(contents, Tail(items), level)

get_markdown_content(b) == markdown_of(b.contents, b.structure.items, 1)

-----------------------------------------------------------------------------
(* class GenerationStatistics; times are whole milliseconds *)

GenerationStatistics(it, ot, itok, otok, tt, name) ==
    [input_time |-> it, output_time |-> ot, input_tokens |-> itok,
     output_tokens |-> otok, total_time |-> tt, model_name |-> name]

\* GenerationStatistics(model_name=name): every numeric field defaults to 0
NewStats(name) == GenerationStatistics(0, 0, 0, 0, 0, name)

\* add that takes the other record's output tokens for the input tokens
add_misfield(self, other) ==
    [self EXCEPT !.input_time = @ + other.input_time,
                 !.output_time = @ + other.output_time,
                 !.input_tokens = @ + other.output_tokens,
                 !.output_tokens = @ + other.output_tokens,
                 !.total_time = @ + other.total_time]

\* add with = in place of += for the total time
add_last(self, other) ==
    [self EXCEPT !.input_time = @ + other.input_time,
                 !.output_time = @ + other.output_time,
                 !.input_tokens = @ + other.input_tokens,
                 !.output_tokens = @ + other.output_tokens,
                 !.total_time = other.total_time]

\* GenerationStatistics.add
add(self, other) ==
    [self EXCEPT !.input_time = @ + other.input_time,
                 !.output_time = @ + other.output_time,
                 !.input_tokens = @ + other.input_tokens,
                 !.output_tokens = @ + other.output_tokens,
                 !.total_time = @ + other.total_time]

\* a / b in Python: the exact quotient, or ZeroDivisionError
Quotient(a, b) == [raised |-> b = 0, num |-> a, den |-> b]

\* the number 0
Zero == [raised |-> FALSE, num |-> 0, den |-> 1]

\* GenerationStatistics.get_input_speed
get_input_speed(self) ==
    IF self.input_time # 0
    THEN Quotient(self.input_tokens, self.input_time) ELSE Zero

\* get_output_speed without the test of output_time
get_output_speed_unguarded(self) ==
    Quotient(self.output_tokens, self.output_time)

\* GenerationStatistics.get_output_speed
get_output_speed(self) ==
    IF self.output_time # 0
    THEN Quotient(self.output_tokens, self.output_time) ELSE Zero

\* GenerationStatistics.__str__: the values the summary is formatted from
str_of(self) ==
    [model |-> self.model_name,
     total_time |-> self.total_time,
     output_speed |-> get_output_speed(self),
     total_tokens |-> self.input_tokens + self.output_tokens]

\* usage payloads the provider can attach to a response
Usages ==
    {[prompt_time |-> 1, completion_time |-> 2, prompt_tokens |-> 3,
      completion_tokens |-> 4, total_time |-> 3],
     [prompt_time |-> 0, completion_time |-> 0, prompt_tokens |-> 2,
      completion_tokens |-> 5, total_time |-> 1]}

\* usage payload of the outline call
OutlineUsages ==
    {[prompt_time |-> 2, completion_time |-> 5, prompt_tokens |-> 7,
      completion_tokens |-> 9, total_time |-> 8]}

StatsOfUsage(usage, name) ==
    GenerationStatistics(usage.prompt_time, usage.completion_time,
                         usage.prompt_tokens, usage.completion_tokens,
                         usage.total_time, name)

-----------------------------------------------------------------------------
(* Outline payloads the outline call can return *)

\* {"A": "a", "B": {"C": "c", "D": "d"}}
PayloadExample ==
    Dict(<<Item("A", Str),
           Item("B", Dict(<<Item("C", Str), Item("D", Str)>>))>>)

\* {"A": {"B": {"C": "c"}}, "D": "d"}
PayloadDeep ==
    Dict(<<Item("A", Dict(<<Item("B", Dict(<<Item("C", Str)>>))>>)),
           Item("D", Str)>>)

\* {"A": "a", "B": {"A": "a2"}}: one title at two positions
PayloadAlias ==
    Dict(<<Item("A", Str), Item("B", Dict(<<Item("A", Str)>>))>>)

\* {"A": 1, "B": {}, "C": "c"}
PayloadMixed ==
    Dict(<<Item("A", Other), Item("B", Dict(<<>>)), Item("C", Str)>>)

\* {"A": "a", "B": "b", "A": {"C": "c"}}: a key repeated in one object
PayloadRepeat ==
    Dict(<<Item("A", Str), Item("B", Str),
           Item("A", Dict(<<Item("C", Str)>>))>>)

\* {}
PayloadEmpty == Dict(<<>>)

Payloads ==
    {PayloadExample, PayloadDeep, PayloadAlias, PayloadMixed, PayloadRepeat,
     PayloadEmpty, Str, Other, Malformed}

NoPayload == [kind |-> "none", items |-> <<>>]

\* the outlines a Document can be built from
Outlines == {json_loads(p) : p \in {q \in Payloads : q.kind = "dict"}}

-----------------------------------------------------------------------------
(* generate_section: one provider chunk becomes zero, one or two events *)

\* chunks of the provider stream: delta.content is None, "" or a text
\* delta; x_groq is absent, present without usage, or carries a usage payload
Chunks ==
    [has_content : BOOLEAN, content : {<<>>} \cup Deltas,
     x_groq : {"none", "nousage"}, usage : {CHOOSE u \in Usages : TRUE}]
    \cup
    [has_content : BOOLEAN, content : {<<>>} \cup Deltas,
     x_groq : {"usage"}, usage : Usages]

ProviderChunks == {c \in Chunks : c.has_content \/ c.content = <<>>}

TextEvent(text) == [kind |-> "text", text |-> text, stats |-> NewStats("")]
StatsEvent(stats) == [kind |-> "stats", text |-> <<>>, stats |-> stats]

\* the statistics records a section call can yield
SectionStats == {StatsOfUsage(u, "llama3-8b-8192") : u \in Usages}

\* no statistics yielded yet
NoReports == [r \in SectionStats |-> 0]

\* the events generate_section yields for one chunk of the stream
section_events(chunk) ==
    (IF chunk.has_content /\ Truthy(chunk.content)
     THEN <<TextEvent(chunk.content)>> ELSE <<>>)
    \o (IF chunk.x_groq = "usage"
        THEN <<StatsEvent(StatsOfUsage(chunk.usage, "llama3-8b-8192"))>>
        ELSE <<>>)

\* the body of "for chunk in content_stream" in stream_section_content,
\* over the events of one provider chunk
RECURSIVE consume(_, _, _, _)
consume(events, title, b, stats) ==
    IF events = <<>> THEN [book |-> b, stats |-> stats, raised |-> FALSE]
    ELSE LET e == Head(events)
         IN IF e.kind = "stats"
            THEN consume(Tail(events), title, b, add(stats, e.stats))
            ELSE LET a == append_to(b, title, e.text)
                 IN IF a.raised
                    THEN [book |-> b, stats |-> stats, raised |-> TRUE]
                    ELSE consume(Tail(events), title, a.book, stats)

\* the text deltas among events, in order
RECURSIVE texts_of(_)
texts_of(events) ==
    IF events = <<>> THEN <<>>
    ELSE (IF Head(events).kind = "text" THEN <<Head(events).text>> ELSE <<>>)
         \o texts_of(Tail(events))

\* the statistics among events, in order
RECURSIVE stats_of(_)
stats_of(events) ==
    IF events = <<>> THEN <<>>
    ELSE (IF Head(events).kind = "stats" THEN <<Head(events).stats>> ELSE <<>>)
         \o stats_of(Tail(events))

RECURSIVE count_reports(_, _)
count_reports(yielded, bag) ==
    IF yielded = <<>> THEN bag
    ELSE count_reports(Tail(yielded), [bag EXCEPT ![Head(yielded)] = @ + 1])

RECURSIVE log_deltas(_, _, _)
log_deltas(events, title, log) ==
    IF events = <<>> THEN log
    ELSE log_deltas(Tail(events), title,
                    IF Head(events).kind = "text"
                    THEN [log EXCEPT ![title] = Append(@, Head(events).text)]
                    ELSE log)

-----------------------------------------------------------------------------
(* generate_book *)

Top == stack[Len(stack)]
Current == Top.sections[Top.i]

\* the loop of the innermost frame moves on to its next item
Advance(stk) == [stk EXCEPT ![Len(stk)].i = @ + 1]

Init ==
    /\ pc = "idle"
    /\ err = "none"
    /\ book_structure = NoPayload
    /\ structure_stats = NewStats("")
    /\ has_book = FALSE
    /\ book = NoBook
    /\ total_stats = NewStats("")
    /\ stack = <<>>
    /\ nchunks = 0
    /\ started = <<>>
    /\ active = {}
    /\ applied = <<>>
    /\ emitted = <<>>
    /\ reported = NoReports
    /\ records = <<>>
    /\ exported = <<>>

\* main: the button is pressed and generate_book issues the outline call
GenerateBook ==
    /\ pc = "idle"
    /\ pc' = "structure"
    /\ UNCHANGED <<err, book_structure, structure_stats, has_book, book,
                   total_stats, stack, nchunks, started, active, applied,
                   exported, emitted, reported, records>>

\* generate_book_structure returns the statistics and the payload
OutlineReturns(payload, usage) ==
    /\ pc = "structure"
    /\ book_structure' = payload
    /\ structure_stats' = StatsOfUsage(usage, "llama3-70b-8192")
    /\ pc' = "parse"
    /\ UNCHANGED <<err, has_book, book, total_stats, stack, nchunks, started,
                   active, applied, exported, emitted, reported, records>>

\* the provider raises during the outline call: nothing catches it
OutlineFails ==
    /\ pc = "structure"
    /\ pc' = "failed"
    /\ err' = "APIError"
    /\ UNCHANGED <<book_structure, structure_stats, has_book, book,
                   total_stats, stack, nchunks, started, active, applied,
                   exported, emitted, reported, records>>

\* ParseStructure that seeds the accumulator with the outline call's
\* statistics
ParseStructure_seeded ==
    /\ pc = "parse"
    /\ IF book_structure.kind = "malformed"
       THEN \* json.JSONDecodeError, caught: st.error
            /\ pc' = "failed"
            /\ err' = "JSONDecodeError"
            /\ UNCHANGED <<has_book, book, total_stats, stack, applied>>
       ELSE LET structure == json_loads(book_structure)
            IN IF ~IsDict(structure)
               THEN \* Book.__init__: structure.items() raises, uncaught
                    /\ pc' = "failed"
                    /\ err' = "AttributeError"
                    /\ UNCHANGED <<has_book, book, total_stats, stack,
                                   applied>>
               ELSE /\ book' = NewBook(structure)
                    /\ has_book' = TRUE
                    /\ total_stats' = add(NewStats("Combined"), structure_stats)
                    /\ stack' = <<[sections |-> structure.items, i |-> 1]>>
                    /\ applied' = [t \in DOMAIN NewBook(structure).contents
                                     |-> <<>>]
                    /\ pc' = "walk"
                    /\ err' = err
    /\ UNCHANGED <<book_structure, structure_stats, nchunks, started, active,
                   exported, emitted, reported, records>>

\* json.loads, Book(...), st.session_state.book = book, total_stats = ...
ParseStructure ==
    /\ pc = "parse"
    /\ IF book_structure.kind = "malformed"
       THEN \* json.JSONDecodeError, caught: st.error
            /\ pc' = "failed"
            /\ err' = "JSONDecodeError"
            /\ UNCHANGED <<has_book, book, total_stats, stack, applied>>
       ELSE LET structure == json_loads(book_structure)
            IN IF ~IsDict(structure)
               THEN \* Book.__init__: structure.items() raises, uncaught
                    /\ pc' = "failed"
                    /\ err' = "AttributeError"
                    /\ UNCHANGED <<has_book, book, total_stats, stack,
                                   applied>>
               ELSE /\ book' = NewBook(structure)
                    /\ has_book' = TRUE
                    /\ total_stats' = NewStats("Combined")
                    /\ stack' = <<[sections |-> structure.items, i |-> 1]>>
                    /\ applied' = [t \in DOMAIN NewBook(structure).contents
                                     |-> <<>>]
                    /\ pc' = "walk"
                    /\ err' = err
    /\ UNCHANGED <<book_structure, structure_stats, nchunks, started, active,
                   exported, emitted, reported, records>>

\* stream_section_content: the loop of the innermost frame is exhausted
WalkReturn ==
    /\ pc = "walk"
    /\ Top.i > Len(Top.sections)
    /\ LET rest == SubSeq(stack, 1, Len(stack) - 1)
       IN IF rest = <<>>
          THEN \* st.success
               /\ stack' = rest
               /\ pc' = "done"
          ELSE /\ stack' = Advance(rest)
               /\ pc' = "walk"
    /\ UNCHANGED <<err, book_structure, structure_stats, has_book, book,
                   total_stats, nchunks, started, active, applied, exported,
                   emitted, reported, records>>

\* WalkDescend that passes over a nested mapping instead of recursing
WalkDescend_skip ==
    /\ pc = "walk"
    /\ Top.i <= Len(Top.sections)
    /\ ~IsStr(Current.content)
    /\ IsDict(Current.content)
    /\ stack' = Advance(stack)
    /\ UNCHANGED <<pc, err, book_structure, structure_stats, has_book, book,
                   total_stats, nchunks, started, active, applied, exported,
                   emitted, reported, records>>

\* stream_section_content: isinstance(content, dict), recurse
WalkDescend ==
    /\ pc = "walk"
    /\ Top.i <= Len(Top.sections)
    /\ ~IsStr(Current.content)
    /\ IsDict(Current.content)
    /\ stack' = Append(stack, [sections |-> Current.content.items, i |-> 1])
    /\ UNCHANGED <<pc, err, book_structure, structure_stats, has_book, book,
                   total_stats, nchunks, started, active, applied, exported,
                   emitted, reported, records>>

\* stream_section_content: content is neither a str nor a dict
WalkSkip ==
    /\ pc = "walk"
    /\ Top.i <= Len(Top.sections)
    /\ ~IsDict(Current.content)
    /\ ~IsStr(Current.content)
    /\ stack' = Advance(stack)
    /\ UNCHANGED <<pc, err, book_structure, structure_stats, has_book, book,
                   total_stats, nchunks, started, active, applied, exported,
                   emitted, reported, records>>

\* StartSection that gives every position of the outline a fresh buffer
StartSection_fresh ==
    /\ pc = "walk"
    /\ Top.i <= Len(Top.sections)
    /\ IsStr(Current.content)
    /\ pc' = "stream"
    /\ started' = Append(started, Current.title)
    /\ active' = active \cup {Len(started) + 1}
    /\ emitted' = Append(emitted, <<>>)
    /\ reported' = reported
    /\ book' = [book EXCEPT !.contents[Current.title] = <<>>]
    /\ UNCHANGED <<err, book_structure, structure_stats, has_book,
                   total_stats, stack, nchunks, applied, exported, records>>

\* stream_section_content: isinstance(content, str), generate_section(...)
StartSection ==
    /\ pc = "walk"
    /\ Top.i <= Len(Top.sections)
    /\ IsStr(Current.content)
    /\ pc' = "stream"
    /\ started' = Append(started, Current.title)
    /\ active' = active \cup {Len(started) + 1}
    /\ emitted' = Append(emitted, <<>>)
    /\ reported' = reported
    /\ UNCHANGED <<err, book_structure, structure_stats, has_book, book,
                   total_stats, stack, nchunks, applied, exported, records>>

\* the stream delivers a chunk; its events are consumed
StreamChunk(chunk) ==
    /\ pc = "stream"
    /\ nchunks < MaxChunks
    /\ LET events == section_events(chunk)
           r == consume(events, Current.title, book, total_stats)
       IN /\ book' = r.book
          /\ total_stats' = r.stats
          /\ applied' = log_deltas(events, Current.title, applied)
          /\ emitted' = [emitted EXCEPT ![Len(emitted)] = @ \o texts_of(events)]
          /\ reported' = count_reports(
                            IF r.raised THEN <<>> ELSE stats_of(events),
                            reported)
          /\ IF r.raised
             THEN \* KeyError out of update_content: nothing catches it
                  /\ pc' = "failed"
                  /\ err' = "KeyError"
                  /\ active' = active \ {Len(started)}
             ELSE UNCHANGED <<pc, err, active>>
    /\ nchunks' = nchunks + 1
    /\ UNCHANGED <<book_structure, structure_stats, has_book, stack, started,
                   exported, records>>

\* the stream is exhausted: the loop over the sections goes on
StreamEnd ==
    /\ pc = "stream"
    /\ active' = active \ {Len(started)}
    /\ stack' = Advance(stack)
    /\ pc' = "walk"
    /\ UNCHANGED <<err, book_structure, structure_stats, has_book, book,
                   total_stats, nchunks, started, applied, exported, emitted,
                   reported, records>>

\* StreamFail with the exception swallowed: the walk goes on
StreamFail_swallow ==
    /\ pc = "stream"
    /\ active' = active \ {Len(started)}
    /\ stack' = Advance(stack)
    /\ pc' = "walk"
    /\ err' = "GenerationFailed"
    /\ UNCHANGED <<book_structure, structure_stats, has_book, book,
                   total_stats, nchunks, started, applied, exported, emitted,
                   reported, records>>

\* StreamFail that rolls the failing section's buffer back
StreamFail_rollback ==
    /\ pc = "stream"
    /\ active' = active \ {Len(started)}
    /\ pc' = "failed"
    /\ err' = "GenerationFailed"
    /\ book' = [book EXCEPT !.contents[Current.title] = <<>>]
    /\ UNCHANGED <<book_structure, structure_stats, has_book, total_stats,
                   stack, nchunks, started, applied, exported, emitted,
                   reported, records>>

\* the provider raises inside generate_section: nothing catches it
StreamFail ==
    /\ pc = "stream"
    /\ active' = active \ {Len(started)}
    /\ pc' = "failed"
    /\ err' = "GenerationFailed"
    /\ UNCHANGED <<book_structure, structure_stats, has_book, book,
                   total_stats, stack, nchunks, started, applied, exported,
                   emitted, reported, records>>

\* Export that also folds the outline call's statistics into the total
Export_merge ==
    /\ pc \in {"done", "failed"}
    /\ has_book
    /\ exported' = get_markdown_content(book)
    /\ total_stats' = add(total_stats, structure_stats)
    /\ UNCHANGED <<pc, err, book_structure, structure_stats, has_book, book,
                   stack, nchunks, started, active, applied, emitted,
                   reported, records>>

\* main, column 2: the stored book is serialised for the download buttons
Export ==
    /\ pc \in {"done", "failed"}
    /\ has_book
    /\ exported' = get_markdown_content(book)
    /\ UNCHANGED <<pc, err, book_structure, structure_stats, has_book, book,
                   total_stats, stack, nchunks, started, active, applied,
                   emitted, reported, records>>

Next ==
    \/ GenerateBook
    \/ \E payload \in Payloads, usage \in OutlineUsages :
          OutlineReturns(payload, usage)
    \/ OutlineFails
    \/ ParseStructure
    \/ WalkReturn
    \/ WalkDescend
    \/ WalkSkip
    \/ StartSection
    \/ \E chunk \in ProviderChunks : StreamChunk(chunk)
    \/ StreamEnd
    \/ StreamFail
    \/ Export

Spec == Init /\ [][Next]_vars

\* the script runs on its single thread, and every provider stream is
\* finite: it delivers its next chunk, ends or fails
Walk == WalkReturn \/ WalkDescend \/ WalkSkip \/ StartSection
Stream ==
    \/ \E chunk \in ProviderChunks : StreamChunk(chunk)
    \/ StreamEnd
    \/ StreamFail

FairSpec == Spec /\ WF_vars(ParseStructure) /\ WF_vars(Walk) /\ WF_vars(Stream)

\* the phase of the run, read off the position of the script
Phase ==
    CASE err # "none" -> "Failed"
      [] pc = "idle" -> "Idle"
      [] pc \in {"structure", "parse"} -> "Structuring"
      [] pc \in {"walk", "stream"} -> "Streaming"
      [] pc = "done" -> "Completed"
      [] OTHER -> "Detached"

-----------------------------------------------------------------------------
(* The Book class on its own: build, any appends, then serialise *)

RECURSIVE SumLen(_, _)
SumLen(log, keys) ==
    IF keys = {} THEN 0
    ELSE LET k == CHOOSE x \in keys : TRUE
         IN Len(log[k]) + SumLen(log, keys \ {k})

DocInit ==
    /\ pc = "doc_new"
    /\ err = "none"
    /\ book_structure = NoPayload
    /\ structure_stats = NewStats("")
    /\ has_book = FALSE
    /\ book = NoBook
    /\ total_stats = NewStats("")
    /\ stack = <<>>
    /\ nchunks = 0
    /\ started = <<>>
    /\ active = {}
    /\ applied = <<>>
    /\ emitted = <<>>
    /\ reported = NoReports
    /\ records = <<>>
    /\ exported = <<>>

\* Book(structure)
DocBuild(structure) ==
    /\ pc = "doc_new"
    /\ book' = NewBook(structure)
    /\ has_book' = TRUE
    /\ applied' = [t \in DOMAIN NewBook(structure).contents |-> <<>>]
    /\ pc' = "doc"
    /\ UNCHANGED <<err, book_structure, structure_stats, total_stats, stack,
                   nchunks, started, active, exported, emitted, reported,
                   records>>

\* the titles a caller may name: those of the outlines and a foreign one
Titles == {"A", "B", "C", "D", "Z"}

\* book.update_content(title, delta), for any title
DocAppend(title, delta) ==
    /\ pc = "doc"
    /\ SumLen(applied, DOMAIN applied) < MaxAppends
    /\ LET a == append_to(book, title, delta)
       IN /\ book' = a.book
          /\ IF a.raised
             THEN /\ err' = "KeyError"
                  /\ pc' = "doc_failed"
                  /\ applied' = applied
             ELSE /\ applied' = [t \in DOMAIN a.book.contents |->
                                   IF t = title
                                   THEN Append(IF t \in DOMAIN applied
                                               THEN applied[t] ELSE <<>>,
                                               delta)
                                   ELSE applied[t]]
                  /\ UNCHANGED <<pc, err>>
    /\ UNCHANGED <<book_structure, structure_stats, has_book, total_stats,
                   stack, nchunks, started, active, exported, emitted,
                   reported, records>>

\* book.get_markdown_content()
DocExport ==
    /\ pc = "doc"
    /\ exported' = get_markdown_content(book)
    /\ pc' = "doc_exported"
    /\ UNCHANGED <<err, book_structure, structure_stats, has_book, book,
                   total_stats, stack, nchunks, started, active, applied,
                   emitted, reported, records>>

DocNext ==
    \/ \E structure \in Outlines : DocBuild(structure)
    \/ \E title \in Titles, delta \in Deltas : DocAppend(title, delta)
    \/ DocExport

SpecDoc == DocInit /\ [][DocNext]_vars

-----------------------------------------------------------------------------
(* generate_section on its own: one section call and the events it yields *)

SectionInit ==
    /\ pc = "section"
    /\ err = "none"
    /\ book_structure = NoPayload
    /\ structure_stats = NewStats("")
    /\ has_book = FALSE
    /\ book = NoBook
    /\ total_stats = NewStats("")
    /\ stack = <<>>
    /\ nchunks = 0
    /\ started = <<>>
    /\ active = {}
    /\ applied = <<>>
    /\ emitted = <<>>
    /\ reported = NoReports
    /\ records = <<>>
    /\ exported = <<>>

\* for chunk in stream: the events of one chunk are yielded
SectionChunk(chunk) ==
    /\ pc = "section"
    /\ nchunks < MaxChunks
    /\ emitted' = emitted \o texts_of(section_events(chunk))
    /\ reported' = count_reports(stats_of(section_events(chunk)), reported)
    /\ nchunks' = nchunks + 1
    /\ UNCHANGED <<pc, err, book_structure, structure_stats, has_book, book,
                   total_stats, stack, started, active, applied, exported,
                   records>>

\* the stream is exhausted: the generator returns
SectionEnd ==
    /\ pc = "section"
    /\ pc' = "section_done"
    /\ UNCHANGED <<err, book_structure, structure_stats, has_book, book,
                   total_stats, stack, nchunks, started, active, applied,
                   emitted, reported, exported, records>>

SectionNext ==
    \/ \E chunk \in ProviderChunks : SectionChunk(chunk)
    \/ SectionEnd

SpecSection == SectionInit /\ [][SectionNext]_vars

-----------------------------------------------------------------------------
(* GenerationStatistics on its own: an accumulator and three records,     *)
(* merged into one another in any order.  Each object keeps its value at  *)
(* construction and the set of objects whose values it has absorbed.      *)

StatRecords ==
    {StatsOfUsage(u, "llama3-8b-8192") : u \in Usages}
    \cup {StatsOfUsage(u, "llama3-70b-8192") : u \in OutlineUsages}
    \cup {NewStats("llama3-8b-8192")}

StatObject(k, r) == [initial |-> r, stats |-> r, holds |-> {k}]

StatsInit ==
    /\ pc = "stats"
    /\ err = "none"
    /\ book_structure = NoPayload
    /\ structure_stats = NewStats("")
    /\ has_book = FALSE
    /\ book = NoBook
    /\ total_stats = NewStats("")
    /\ stack = <<>>
    /\ nchunks = 0
    /\ started = <<>>
    /\ active = {}
    /\ applied = <<>>
    /\ emitted = <<>>
    /\ reported = NoReports
    /\ exported = <<>>
    /\ \E a, b, c \in StatRecords :
          records = <<StatObject(1, NewStats("Combined")), StatObject(2, a),
                      StatObject(3, b), StatObject(4, c)>>

\* records[i].add(records[j]), each value absorbed at most once
StatsMerge(i, j) ==
    /\ pc = "stats"
    /\ i # j
    /\ records[i].holds \cap records[j].holds = {}
    /\ records' = [records EXCEPT ![i].stats = add(@, records[j].stats),
                                  ![i].holds = @ \cup records[j].holds]
    /\ UNCHANGED <<pc, err, book_structure, structure_stats, has_book, book,
                   total_stats, stack, nchunks, started, active, applied,
                   emitted, reported, exported>>

StatsNext == \E i, j \in 1..Len(records) : StatsMerge(i, j)

SpecStats == StatsInit /\ [][StatsNext]_vars

-----------------------------------------------------------------------------
(* Vocabulary of the properties *)

\* the titles of an outline, as a set
RECURSIVE TitleSet(_)
TitleSet(items) ==
    UNION {{items[j].title} \cup
           (IF items[j].content.kind = "dict"
            THEN TitleSet(items[j].content.items) ELSE {})
           : j \in 1..Len(items)}

\* the (title, depth) pairs of an outline, root-level children at depth d
RECURSIVE TitleDepths(_, _)
TitleDepths(items, d) ==
    UNION {{<<items[j].title, d>>} \cup
           (IF items[j].content.kind = "dict"
            THEN TitleDepths(items[j].content.items, d + 1) ELSE {})
           : j \in 1..Len(items)}

\* the leaves of an outline, depth first in insertion order
RECURSIVE Leaves(_)
Leaves(items) ==
    IF items = <<>> THEN <<>>
    ELSE LET n == Len(items)
             last == items[n]
         IN Leaves(SubSeq(items, 1, n - 1))
            \o (CASE last.content.kind = "str" -> <<last.title>>
                  [] last.content.kind = "dict" -> Leaves(last.content.items)
                  [] OTHER -> <<>>)

RECURSIVE Concat(_)
Concat(deltas) ==
    IF deltas = <<>> THEN <<>>
    ELSE Concat(SubSeq(deltas, 1, Len(deltas) - 1)) \o deltas[Len(deltas)]

IsPrefix(s, t) == Len(s) <= Len(t) /\ SubSeq(t, 1, Len(s)) = s

OnlyWhitespace(s) == \A j \in 1..Len(s) : s[j] \in {" ", "\n", "\t"}

\* in the text out, position i holds a heading of exactly d '#' and a space
HeadingAt(out, i, d) ==
    /\ i >= d + 2
    /\ out[i - 1] = " "
    /\ \A k \in (i - 1 - d)..(i - 2) : out[k] = "#"
    /\ i - 1 - d = 1 \/ out[i - 2 - d] # "#"

\* in the text out, the title at position i is followed by body
BodyAt(out, i, body) ==
    /\ i + Len(body) + 3 <= Len(out)
    /\ out[i + 1] = "\n"
    /\ SubSeq(out, i + 2, i + 1 + Len(body)) = body
    /\ out[i + 2 + Len(body)] = "\n"
    /\ out[i + 3 + Len(body)] = "\n"

\* out holds the section of title t at level d with that body
EmittedAt(out, t, d, body) ==
    \E i \in 1..Len(out) :
        out[i] = t /\ HeadingAt(out, i, d) /\ BodyAt(out, i, body)

\* every heading of out stands at a level its title has in the outline
LevelsAreDepths(out, b) ==
    \A i \in 1..Len(out) :
        out[i] \in DOMAIN b.contents =>
            \E d \in 1..Len(out) :
                /\ <<out[i], d>> \in TitleDepths(b.structure.items, 1)
                /\ HeadingAt(out, i, d)

-----------------------------------------------------------------------------
(* Properties of the Book class *)

\* C1: building the Document yields exactly one buffer per title of the
\* outline, leaf or internal, and for no other title; the buffer keys are
\* the set of flatten_structure; every buffer is empty until an append.
C1_BuildAllocatesEveryTitle ==
    has_book =>
        /\ DOMAIN book.contents = TitleSet(book.structure.items)
        /\ DOMAIN book.contents =
              SeqRange(flatten_structure(book.structure.items))
        /\ (\A t \in DOMAIN applied : applied[t] = <<>>) =>
              \A t \in DOMAIN book.contents : book.contents[t] = <<>>

C1_Witness ==
    /\ pc = "doc"
    /\ book.structure = json_loads(PayloadExample)
    /\ DOMAIN book.contents = {"A", "B", "C", "D"}
    /\ \A t \in DOMAIN book.contents : book.contents[t] = <<>>

\* C2: the buffer of every title equals the concatenation, in the order
\* applied, of the deltas appended to that title.
C2_BufferIsConcatenation ==
    has_book =>
        \A t \in DOMAIN book.contents : book.contents[t] = Concat(applied[t])

C2_Witness ==
    /\ pc = "doc"
    /\ \E t \in DOMAIN book.contents :
          /\ applied[t] = << <<"x">>, <<" ">>, <<"x">> >>
          /\ book.contents[t] = <<"x", " ", "x">>

\* C3 as stated: a title is left out of the text exactly when its buffer is
\* empty; a title with a non-empty buffer appears as a heading at the level
\* of its depth, followed by its text.
C3_OmitsIffEmpty ==
    pc = "doc_exported" =>
        /\ \A p \in TitleDepths(book.structure.items, 1) :
              IF book.contents[p[1]] = <<>>
              THEN p[1] \notin SeqRange(exported)
              ELSE EmittedAt(exported, p[1], p[2], book.contents[p[1]])
        /\ LevelsAreDepths(exported, book)

\* C3 amended: a title is left out exactly when its buffer is empty or
\* holds only whitespace; any other title appears as a heading at the level
\* of its depth (root-level children at level 1), followed by its text.
C3_OmitsIffBlank ==
    pc = "doc_exported" =>
        /\ \A p \in TitleDepths(book.structure.items, 1) :
              IF OnlyWhitespace(book.contents[p[1]])
              THEN p[1] \notin SeqRange(exported)
              ELSE EmittedAt(exported, p[1], p[2], book.contents[p[1]])
        /\ LevelsAreDepths(exported, book)

C3_Witness ==
    /\ pc = "doc_exported"
    /\ \E p, q \in TitleDepths(book.structure.items, 1) :
          /\ p[2] = 2
          /\ ~OnlyWhitespace(book.contents[p[1]])
          /\ EmittedAt(exported, p[1], 2, book.contents[p[1]])
          /\ book.contents[q[1]] # <<>>
          /\ OnlyWhitespace(book.contents[q[1]])
          /\ q[1] \notin SeqRange(exported)

-----------------------------------------------------------------------------
(* Properties of a generation run *)

\* the outline call has returned
OutlineReturned == book_structure.kind \in {"malformed", "str", "other", "dict"}

\* the outline call returned something that is not a JSON mapping
BadPayload == book_structure.kind \in {"malformed", "str", "other"}

\* the title of the section call that failed
FailedTitle == Current.title

\* the text the section calls for title t have yielded, in call order
RECURSIVE ReceivedUpTo(_, _)
ReceivedUpTo(t, k) ==
    IF k = 0 THEN <<>>
    ELSE ReceivedUpTo(t, k - 1)
         \o (IF started[k] = t THEN Concat(emitted[k]) ELSE <<>>)

ReceivedText(t) == ReceivedUpTo(t, Len(started))

\* C4: a payload that is malformed JSON, or valid JSON that is not a mapping,
\* ends the run in Structuring with the structure decode error, with no
\* Document stored and no section call issued.
C4_BadPayloadIsDecodeError ==
    (BadPayload /\ pc # "parse") =>
        /\ Phase = "Failed"
        /\ err = "JSONDecodeError"
        /\ ~has_book
        /\ started = <<>>

\* C5: once a section call has failed the run is Failed and stays so, no
\* further section call is started and no buffer changes.
C5_FailureAbortsWalk ==
    [][/\ (pc = "stream" /\ err' = "GenerationFailed") => Phase' = "Failed"
       /\ err = "GenerationFailed" =>
             /\ Phase = "Failed" /\ Phase' = "Failed"
             /\ pc' \notin {"walk", "stream"}
             /\ started' = started
             /\ book' = book]_vars

C5_Witness ==
    /\ err = "GenerationFailed"
    /\ started = <<"A", "C">>
    /\ Leaves(book.structure.items) = <<"A", "C", "D">>
    /\ book.contents["A"] # <<>>
    /\ book.contents["D"] = <<>>
    /\ exported # <<>>

\* C6 as stated: after a section call failed having yielded text, the
\* Document is stored, every buffer holds exactly the text received for its
\* title, and the serialised Document includes the failing section's text.
C6_PartialTextExported ==
    (err = "GenerationFailed" /\ emitted[Len(emitted)] # <<>>) =>
        /\ has_book
        /\ \A t \in DOMAIN book.contents : book.contents[t] = ReceivedText(t)
        /\ exported \in {<<>>, get_markdown_content(book)}
        /\ EmittedAt(get_markdown_content(book), FailedTitle, Len(stack),
                     book.contents[FailedTitle])

\* C6 amended: after a section call failed, the Document is stored and every
\* buffer holds exactly the text received for its title; the serialised
\* Document includes the failing section's text whenever that buffer holds
\* a character that is not whitespace.
C6_PartialTextKept ==
    err = "GenerationFailed" =>
        /\ has_book
        /\ \A t \in DOMAIN book.contents : book.contents[t] = ReceivedText(t)
        /\ exported \in {<<>>, get_markdown_content(book)}
        /\ ~OnlyWhitespace(book.contents[FailedTitle]) =>
              EmittedAt(get_markdown_content(book), FailedTitle, Len(stack),
                        book.contents[FailedTitle])

C6_Witness ==
    /\ err = "GenerationFailed"
    /\ started = <<"A", "C">>
    /\ FailedTitle = "C"
    /\ emitted[2] = << <<"x">> >>
    /\ book.contents["A"] = <<"x", " ">>
    /\ book.contents["C"] = <<"x">>
    /\ EmittedAt(exported, "C", 2, <<"x">>)

\* C7: only the section call started last can be in flight, and the calls
\* started so far are a prefix of the leaves in depth-first insertion order.
C7_OneCallAtATimeInOrder ==
    /\ active \subseteq {Len(started)}
    /\ Cardinality(active) <= 1
    /\ has_book => IsPrefix(started, Leaves(book.structure.items))
    /\ ~has_book => started = <<>>

C7_Witness ==
    /\ pc = "stream"
    /\ started = <<"A", "C", "D">>
    /\ active = {3}

PhaseEdges ==
    {<<"Idle", "Structuring">>, <<"Structuring", "Streaming">>,
     <<"Streaming", "Completed">>, <<"Structuring", "Failed">>,
     <<"Streaming", "Failed">>}

\* C8: the phase moves only along Idle, Structuring, Streaming, Completed,
\* or from Structuring or Streaming to Failed; a section call is started
\* only with the outline returned and the Document built; in Completed and
\* Failed no buffer and no field of the accumulator changes.
C8_PhaseOrder ==
    /\ [](started # <<>> =>
             /\ OutlineReturned
             /\ has_book
             /\ book.structure = json_loads(book_structure))
    /\ [][/\ Phase' # Phase => <<Phase, Phase'>> \in PhaseEdges
          /\ started' # started =>
                Phase = "Streaming" /\ has_book /\ OutlineReturned
          /\ Phase \in {"Completed", "Failed"} =>
                /\ Phase' = Phase
                /\ book' = book
                /\ total_stats' = total_stats]_vars

C8_Witness ==
    /\ Phase = "Completed"
    /\ started = <<"A", "C", "D">>
    /\ total_stats.total_time > 0
    /\ exported # <<>>

\* C9: a run whose outline is a mapping and whose streams end goes on to
\* Completed unless a section call fails, whether or not usage is reported,
\* and at Completed one section call was made for every leaf, in order.
C9_CleanRunCompletes ==
    /\ (pc = "walk") ~> (Phase = "Completed" \/ err = "GenerationFailed")
    /\ [](Phase = "Completed" => started = Leaves(book.structure.items))

C9_Witness ==
    /\ Phase = "Completed"
    /\ started = <<"A", "C", "D">>
    /\ total_stats = NewStats("Combined")
    /\ book.contents["D"] # <<>>

\* C10: every step leaves every buffer a prefix of its new value, and a
\* step that changes the Document either builds it or appends one delta to
\* the buffer of the section being streamed.
C10_BuffersOnlyGrow ==
    [][/\ \A t \in DOMAIN book.contents :
             /\ t \in DOMAIN book'.contents
             /\ IsPrefix(book.contents[t], book'.contents[t])
       /\ book' # book =>
             \/ ~has_book /\ pc = "parse"
             \/ /\ pc = "stream"
                /\ book'.structure = book.structure
                /\ \E d \in Deltas :
                      book'.contents =
                         [book.contents EXCEPT ![Current.title] = @ \o d]]_vars

C10_Witness ==
    /\ pc = "stream"
    /\ \E t \in DOMAIN book.contents : Len(book.contents[t]) >= 2
    /\ \E t \in DOMAIN book.contents : book.contents[t] = <<>>

\* C11: in a run no append ever names a title without a buffer: every
\* leaf the walk can stream has one from the moment the Book is built, the
\* section being streamed always has one, and KeyError is never raised.
C11_NoUnknownTitle ==
    /\ err # "KeyError"
    /\ has_book =>
          SeqRange(Leaves(book.structure.items)) \subseteq DOMAIN book.contents
    /\ pc = "stream" => Current.title \in DOMAIN book.contents

C11_Witness ==
    /\ pc = "stream"
    /\ Len(stack) = 3
    /\ Current.title = "C"
    /\ book.contents["C"] = <<"x", "x">>

\* C12: an append that names a title without a buffer fails with KeyError
\* and changes nothing: no buffer is written and none is created.
C12_UnknownTitleFails ==
    /\ [](has_book => DOMAIN book.contents = TitleSet(book.structure.items))
    /\ [][\A title \in Titles \ DOMAIN book.contents, delta \in Deltas :
             DocAppend(title, delta) =>
                /\ err' = "KeyError"
                /\ book' = book
                /\ applied' = applied]_vars

C12_Witness ==
    /\ pc = "doc_failed"
    /\ err = "KeyError"
    /\ "Z" \notin DOMAIN book.contents
    /\ \E t \in DOMAIN book.contents : book.contents[t] = <<"x", " ">>

\* the number of statistics records counted in a bag
RECURSIVE BagSize(_, _)
BagSize(bag, keys) ==
    IF keys = {} THEN 0
    ELSE LET k == CHOOSE x \in keys : TRUE
         IN bag[k] + BagSize(bag, keys \ {k})

\* C13: one section call yields statistics at most once, whatever chunks
\* the provider delivers.
C13_OneUsageReportPerCall ==
    pc \in {"section", "section_done"} =>
        BagSize(reported, DOMAIN reported) <= 1

NumericFields ==
    {"input_time", "output_time", "input_tokens", "output_tokens",
     "total_time"}

\* the sum of field f over the statistics records counted in a bag
RECURSIVE BagSum(_, _, _)
BagSum(bag, keys, f) ==
    IF keys = {} THEN 0
    ELSE LET k == CHOOSE x \in keys : TRUE
         IN bag[k] * k[f] + BagSum(bag, keys \ {k}, f)

\* C20: every numeric field of the accumulator is the sum of that field
\* over the statistics the section calls have yielded so far, the outline
\* call's statistics not among them, and no field ever decreases.
C20_TotalIsSumOfReports ==
    /\ [](\A f \in NumericFields :
             total_stats[f] = BagSum(reported, DOMAIN reported, f))
    /\ [][\A f \in NumericFields : total_stats'[f] >= total_stats[f]]_vars

C20_Witness ==
    /\ Phase = "Completed"
    /\ \A r \in DOMAIN reported : reported[r] >= 1
    /\ structure_stats.total_time = 8
    /\ total_stats.total_time = 4
    /\ total_stats.input_tokens = 5

\* the sum of field f over the construction values of the objects in set
RECURSIVE InitialSum(_, _)
InitialSum(set, f) ==
    IF set = {} THEN 0
    ELSE LET k == CHOOSE x \in set : TRUE
         IN records[k].initial[f] + InitialSum(set \ {k}, f)

\* C14: a merge adds each of the five numeric fields of the other record
\* to the same field of the accumulator, keeps the accumulator's model_name
\* as constructed, and leaves the other record as it was.
C14_MergeAddsFieldwise ==
    /\ [](\A i \in 1..Len(records) :
             records[i].stats.model_name = records[i].initial.model_name)
    /\ [][\A i, j \in 1..Len(records) :
             StatsMerge(i, j) =>
                /\ \A f \in NumericFields :
                      records'[i].stats[f] =
                         records[i].stats[f] + records[j].stats[f]
                /\ records'[i].stats.model_name = records[i].stats.model_name
                /\ \A k \in 1..Len(records) :
                      k # i => records'[k] = records[k]]_vars

C14_Witness ==
    /\ pc = "stats"
    /\ records[1].holds = {1, 3}
    /\ records[3].stats.model_name = "llama3-70b-8192"
    /\ records[1].stats.model_name = "Combined"
    /\ records[1].stats.output_tokens = 9
    /\ records[3].stats.output_tokens = 9

\* C15: the five totals of an object depend only on which records were
\* merged into it, not on the order or the grouping of the merges: they are
\* the field-wise sums over those records, and two objects that absorbed
\* the same records agree.
C15_MergeOrderIrrelevant ==
    pc = "stats" =>
        /\ \A i \in 1..Len(records), f \in NumericFields :
              records[i].stats[f] = InitialSum(records[i].holds, f)
        /\ \A i, k \in 1..Len(records), f \in NumericFields :
              records[i].holds = records[k].holds =>
                 records[i].stats[f] = records[k].stats[f]

C15_Witness ==
    /\ pc = "stats"
    /\ records[1].holds = {1, 2, 3, 4}
    /\ records[3].holds = {3, 4}
    /\ records[2].holds = {2}
    /\ records[2].initial # records[3].initial
    /\ records[3].initial # records[4].initial
    /\ records[2].initial # records[4].initial
    /\ records[1].stats.total_time > 0

\* C16: the speeds never raise a division error, and are exactly 0 when
\* their time field is 0, whatever the token count; so for the accumulator
\* and for the outline call's statistics in every state of a run, and so
\* for the speed the summary shows.
C16_SpeedZeroWithoutTime ==
    \A s \in {total_stats, structure_stats} :
        /\ ~get_input_speed(s).raised
        /\ ~get_output_speed(s).raised
        /\ ~str_of(s).output_speed.raised
        /\ s.input_time = 0 => get_input_speed(s) = Zero
        /\ s.output_time = 0 => get_output_speed(s) = Zero
        /\ s.output_time = 0 => str_of(s).output_speed = Zero

C16_Witness ==
    /\ pc = "stream"
    /\ total_stats.model_name = "Combined"
    /\ total_stats.output_time = 0
    /\ total_stats.output_tokens = 10
    /\ total_stats.input_time = 0
    /\ total_stats.input_tokens = 4
    /\ get_output_speed(total_stats) = Zero

\* no title of the outline stands at two positions
UniqueTitles(items) ==
    Len(flatten_structure(items)) = Cardinality(TitleSet(items))

\* the titles of an outline whose value is a dict
RECURSIVE InternalTitles(_)
InternalTitles(items) ==
    UNION {IF items[j].content.kind = "dict"
           THEN {items[j].title} \cup InternalTitles(items[j].content.items)
           ELSE {}
           : j \in 1..Len(items)}

\* C17: with unique titles the stored outline stays the parsed payload, and
\* in every state the buffer of each leaf whose section call has started is
\* the concatenation, in emission order, of the text deltas of that call,
\* while every other buffer is empty; so at Completed as well.
C17_DeltasReachOwnBuffer ==
    (has_book /\ UniqueTitles(book.structure.items)) =>
        /\ book.structure = json_loads(book_structure)
        /\ \A k \in 1..Len(started) :
              book.contents[started[k]] = Concat(emitted[k])
        /\ \A t \in DOMAIN book.contents :
              t \notin SeqRange(started) => book.contents[t] = <<>>

C17_Witness ==
    /\ Phase = "Completed"
    /\ book_structure = PayloadExample
    /\ started = <<"A", "C", "D">>
    /\ emitted = << << <<"x">> >>, << <<" ">>, <<"x">> >>, << >> >>
    /\ book.contents["A"] = <<"x">>
    /\ book.contents["C"] = <<" ", "x">>
    /\ book.contents["D"] = <<>>
    /\ book.contents["B"] = <<>>

\* C18: a title that stands at two depths of the outline has one buffer,
\* which holds the text of the section calls of both positions in call
\* order, and the text treats both positions alike: the title is left out
\* at both (blank buffer) or stands at both depths over the whole buffer.
C18_DuplicateTitleAliases ==
    has_book =>
        \A p, q \in TitleDepths(book.structure.items, 1) :
            (p[1] = q[1] /\ p[2] # q[2]) =>
                /\ p[1] \in DOMAIN book.contents
                /\ book.contents[p[1]] = ReceivedText(p[1])
                /\ LET out == get_markdown_content(book)
                   IN IF OnlyWhitespace(book.contents[p[1]])
                      THEN p[1] \notin SeqRange(out)
                      ELSE /\ EmittedAt(out, p[1], p[2], book.contents[p[1]])
                           /\ EmittedAt(out, p[1], q[2], book.contents[p[1]])

C18_Witness ==
    /\ Phase = "Completed"
    /\ book_structure = PayloadAlias
    /\ started = <<"A", "A">>
    /\ emitted = << << <<"x">> >>, << <<" ">>, <<"x">> >> >>
    /\ book.contents["A"] = <<"x", " ", "x">>
    /\ EmittedAt(exported, "A", 1, <<"x", " ", "x">>)
    /\ EmittedAt(exported, "A", 2, <<"x", " ", "x">>)

\* C19: with unique titles no section call is started for a title whose
\* value is a dict, the buffer of such a title is empty in every state, and
\* the text never holds such a title, whether or not its leaves have text.
C19_InternalTitlesStayEmpty ==
    (has_book /\ UniqueTitles(book.structure.items)) =>
        \A t \in InternalTitles(book.structure.items) :
            /\ t \notin SeqRange(started)
            /\ book.contents[t] = <<>>
            /\ t \notin SeqRange(get_markdown_content(book))
            /\ t \notin SeqRange(exported)

C19_Witness ==
    /\ Phase = "Completed"
    /\ book_structure = PayloadDeep
    /\ started = <<"C", "D">>
    /\ book.contents["C"] = <<"x">>
    /\ book.contents["D"] = <<"x">>
    /\ book.contents["A"] = <<>>
    /\ book.contents["B"] = <<>>
    /\ EmittedAt(exported, "C", 3, <<"x">>)
    /\ EmittedAt(exported, "D", 1, <<"x">>)
    /\ "A" \notin SeqRange(exported)
    /\ "B" \notin SeqRange(exported)

====
